---- MODULE Spec2Model ----
(***************************************************************************)
(* Model of the job execution and persistence framework of auto_crypto:   *)
(* library/job.py (Job, JobStatus, Signal, Emailer), library/database.py   *)
(* (Database, DAO, DatabaseInitiator), library/data.py (the three DAOs)    *)
(* and app/deploy.py.                                                      *)
(*                                                                         *)
(* Each process of Procs is one invocation of a strategy script: it        *)
(* constructs a Job, calls do_work(fn) and then finish_and_return_code.    *)
(* All processes share one database file, which holds the rows that        *)
(* earlier invocations left.  The calculation function fn is arbitrary:    *)
(* while a process is "working" it calls set_status and set_signal any     *)
(* number of times and then returns or raises.                             *)
(*                                                                         *)
(* Python None and SQL null are NoneStr for text fields and NoneNum for    *)
(* numeric fields; a number v is Num(v).  Times are clock ticks; a         *)
(* confidence is counted in thousandths.                                   *)
(***************************************************************************)
EXTENDS Integers, Sequences, FiniteSets, TLC

VARIABLES
    now,            \* the wall clock, in ticks
    Jobs,           \* table Jobs: rows in insertion order
    Signals,        \* table Signals: rows in insertion order
    pc,             \* pc[p]: where process p is in its script
    job,            \* job[p]: the fields of p's Job object
    signal,         \* signal[p]: the fields of p's Signal object (job.signal)
    emails,         \* emails[p]: the notifier invocations made for p, in order
    code,           \* code[p]: what finish_and_return_code returned
    force_email,    \* force_email[p]: the argument of p's finish_and_return_code
    loaded_action,  \* history: the action Signal._load read at construction
    last_call,      \* history: p's most recent call made by fn and its outcome
    StoredValues,   \* table StoredValues: rows in insertion order
    stored_values,  \* stored_values[p][key]: the StoredValue objects of p's Job
    variables,      \* variables[p]: round_dp of p's script configuration
    selected,       \* the rows the last direct DAO.read returned, in order
    tables,         \* the tables that exist in the database file
    deploy          \* what the runs of deploy.py's create_tables have done

\* the state of the job framework proper
job_vars == <<now, Jobs, Signals, pc, job, signal, emails, code, force_email,
              loaded_action, last_call>>

\* the stored values of a job
sv_vars == <<StoredValues, stored_values, variables>>

\* the state of direct DAO reads and of deployment
dao_vars == <<selected, tables, deploy>>

vars == <<job_vars, sv_vars, dao_vars>>

----------------------------------------------------------------------------
(* Bounds *)

MaxTick == 4
MaxCalls == 2
TicksPerSecond == 2

\* the processes of a behaviour
Procs == DOMAIN pc

----------------------------------------------------------------------------
(* Values *)

NoneStr == "None"
NoneNum == <<>>
Num(v) == <<v>>

NAMES == {"doge"}

\* the keys fn passes to store_value
KEYS == {"x", "y"}

----------------------------------------------------------------------------
(* library/job.py: JobStatus *)

SUCCESS_CODE == 0
FAIL_CODE == 1
INITIATED == "INITIATED"
REQUESTING == "REQUESTING_DATA"
CALCULATING == "CALCULATING"
FAILED == "FAILED"
SUCCESS == "SUCCESS"
VALID == {INITIATED, REQUESTING, CALCULATING, FAILED, SUCCESS}

\* str.upper() on the status strings the model passes to set_status
upper(s) ==
    CASE s = "failed" -> "FAILED"
      [] s = "success" -> "SUCCESS"
      [] s = "calculating" -> "CALCULATING"
      [] OTHER -> s

\* JobStatus.is_valid: TRUE, or it raises (FALSE here)
is_valid(status_string) == upper(status_string) \in VALID

\* the strings fn passes to set_status
StatusArgs == VALID \cup {"failed", "BOGUS"}

----------------------------------------------------------------------------
(* library/job.py: Signal constants and argument checks *)

HOLD == "HOLD"
SELL == "SELL"
BUY == "BUY"
VALID_ACTIONS == {HOLD, SELL, BUY}

\* the actions fn passes to set_signal
ActionArgs == VALID_ACTIONS \cup {"buy"}

\* a confidence argument: its Python type and, when numeric, its value in
\* thousandths
Conf(type, milli) == [type |-> type, milli |-> milli]
ConfidenceArgs ==
    { Conf("float", 456), Conf("float", 1500), Conf("int", 0), Conf("str", 0) }

\* isinstance(confidence, float) or isinstance(confidence, int)
is_number(c) == c.type \in {"float", "int"}

\* the chained comparison 0 >= confidence >= 1
out_of_range(c) == 0 >= c.milli /\ c.milli >= 1000

\* round(confidence, 2), in thousandths (no argument lies on a half)
round2(milli) == ((milli + 5) \div 10) * 10

----------------------------------------------------------------------------
(* library/database.py *)

\* datetime.strftime('%Y%m%d%H%M%S'): the tick's whole second
strftime(tick) == tick \div TicksPerSecond

\* Database.unique_id: md5 of the microsecond timestamp, no salt; equal ticks
\* give equal ids
unique_id(tick) == <<"md5", tick>>

\* Database.insert on a table whose id column is the primary key: FALSE when
\* sqlite raises IntegrityError
can_insert(table, row) == \A i \in 1..Len(table) : table[i].id # row.id

\* an insert that overwrites the table's latest row instead of appending
insert_in_place(table, row) ==
    IF table = <<>> THEN <<row>> ELSE [table EXCEPT ![Len(table)] = row]

\* Database.insert of a row whose id is new: INSERT INTO appends the row
insert(table, row) == Append(table, row)

\* the ORDER BY key of sortby_suffix: the sentinel for null, else the column
ZZZ == <<1>>
sort_key(dt) == IF dt = NoneNum THEN ZZZ ELSE <<0, dt[1]>>

key_less(a, b) ==
    \/ a[1] < b[1]
    \/ a[1] = b[1] /\ a[1] = 0 /\ a[2] < b[2]

\* DAO.read(None, where_condition={'name': name}, sortby='datetime'): the
\* indices of the rows that can come first in the result.  ORDER BY .. DESC
\* leaves the order of rows with equal keys to the engine.
first_rows(table, name) ==
    { i \in 1..Len(table) :
        /\ table[i].name = name
        /\ \A j \in 1..Len(table) :
              table[j].name = name =>
                  ~ key_less(sort_key(table[i].datetime), sort_key(table[j].datetime)) }

\* an UPDATE without its WHERE: every row of the table is written
update_all_jobs(table, entry_id, status, seconds_elapsed) ==
    [ i \in 1..Len(table) |->
        [ table[i] EXCEPT !.status = status, !.seconds_elapsed = seconds_elapsed ] ]

\* DAO.update(entry_id, values_dict) on Jobs
update_job(table, entry_id, status, seconds_elapsed) ==
    [ i \in 1..Len(table) |->
        IF table[i].id = entry_id
        THEN [ table[i] EXCEPT !.status = status, !.seconds_elapsed = seconds_elapsed ]
        ELSE table[i] ]

----------------------------------------------------------------------------
(* Initial state: the tables exist and are empty; no process has started. *)

NoJob ==
    [ id |-> <<>>, name |-> NoneStr, run_datetime |-> 0,
      status |-> NoneStr, error |-> NoneStr ]

NoSignal ==
    [ job_id |-> <<>>, name |-> NoneStr, previous_action |-> NoneStr,
      action |-> NoneStr, confidence |-> NoneNum ]

\* Job._stored_values has no entry for a key
NoValue == [ type |-> "NoneType", milli |-> 0 ]
NoStoredValue ==
    [ job_id |-> <<>>, key |-> NoneStr, round_dp |-> NoneNum, value |-> NoValue,
      id |-> <<>>, action |-> NoneStr, confidence |-> <<>> ]

\* deploy.py: the tables of its DAOs, in the order of DAO_LIST
DAO_LIST == <<"Jobs", "Signals", "StoredValues">>
TABLES == { DAO_LIST[i] : i \in DOMAIN DAO_LIST }

\* no run of create_tables has been observed
Deployed == [ run |-> 0, attempted |-> <<>>, failing |-> {} ]

NoCall == [ n |-> 0, op |-> "none", args |-> <<>>, ok |-> TRUE ]

\* What an earlier invocation, run during second 0, left in the database: its
\* Jobs row, and the Signals rows of the set_signal calls it made (none, one,
\* or two within the same second).
EarlierJob ==
    [ id |-> unique_id(0), datetime |-> Num(0), name |-> "doge",
      status |-> SUCCESS, seconds_elapsed |-> Num(1) ]

EarlierSignal(action, tick) ==
    [ id |-> unique_id(tick), job_id |-> unique_id(0), datetime |-> Num(0),
      name |-> "doge", action |-> action, confidence |-> Num(460) ]

Histories ==
    {<<>>}
    \cup { <<EarlierSignal(a, 0)>> : a \in VALID_ACTIONS }
    \cup { <<EarlierSignal(a, 0), EarlierSignal(b, 1)>> : a, b \in VALID_ACTIONS }

\* the processes are about to start, at the first tick of second 1
InitJobVars(procs) ==
    /\ now = TicksPerSecond
    /\ pc = [p \in procs |-> "new"]
    /\ job = [p \in procs |-> NoJob]
    /\ signal = [p \in procs |-> NoSignal]
    /\ emails = [p \in procs |-> <<>>]
    /\ code = [p \in procs |-> NoneNum]
    /\ force_email = [p \in procs |-> FALSE]
    /\ loaded_action = [p \in procs |-> NoneStr]
    /\ last_call = [p \in procs |-> NoCall]
    /\ stored_values = [p \in procs |-> [k \in KEYS |-> NoStoredValue]]

\* no direct DAO read has been made; deploy.py has created the tables
InitDao ==
    /\ selected = <<>>
    /\ tables = TABLES
    /\ deploy = Deployed

\* the state in which the scripts of procs are about to start
InitWith(procs) ==
    /\ InitJobVars(procs)
    /\ Signals \in Histories
    /\ Jobs = IF Signals = <<>> THEN <<>> ELSE <<EarlierJob>>
    /\ StoredValues = <<>>
    /\ variables = [p \in procs |-> NoneNum]
    /\ InitDao

Init == InitWith({"p1"})

\* time passes
Tick ==
    /\ now < MaxTick
    /\ now' = now + 1
    /\ UNCHANGED <<Jobs, Signals, pc, job, signal, emails, code, force_email,
                   loaded_action, last_call>>

----------------------------------------------------------------------------
(* library/job.py: Signal *)

\* Signal.__init__ followed by Signal._load, when the select puts row i first
\* (i = 0: the select returned no row)
Signal_init(job_id, name, i) ==
    [ job_id |-> job_id,
      name |-> name,
      previous_action |-> NoneStr,
      action |-> IF i = 0 THEN NoneStr ELSE Signals[i].action,
      confidence |-> IF i = 0 THEN NoneNum ELSE Signals[i].confidence ]

\* the rows Signal._load may find first
load_choices(name) ==
    IF first_rows(Signals, name) = {} THEN {0} ELSE first_rows(Signals, name)

\* Signal.set without its check of the action
Signal_set_accepts_any_action(action, confidence) ==
    ~ (~ is_number(confidence) \/ out_of_range(confidence))

\* Signal.set: do the argument checks pass?
Signal_set_accepts(action, confidence) ==
    /\ action \in VALID_ACTIONS
    /\ ~ (~ is_number(confidence) \/ out_of_range(confidence))

\* Signal.set: the object after the three assignments
Signal_set_fields(sig, action, confidence) ==
    [ sig EXCEPT !.previous_action = action,
                 !.action = action,
                 !.confidence = Num(round2(confidence.milli)) ]

\* a row that carries its own identifier in the place of the job's
Signal_row_without_job(sig, tick) ==
    [ id |-> unique_id(tick),
      job_id |-> unique_id(tick),
      datetime |-> Num(strftime(tick)),
      name |-> sig.name,
      action |-> sig.action,
      confidence |-> sig.confidence ]

\* Signal.set: the row handed to SignalDAO.new
Signal_row(sig, tick) ==
    [ id |-> unique_id(tick),
      job_id |-> sig.job_id,
      datetime |-> Num(strftime(tick)),
      name |-> sig.name,
      action |-> sig.action,
      confidence |-> sig.confidence ]

\* Signal.has_changed
has_changed(sig) == sig.previous_action # sig.action

----------------------------------------------------------------------------
(* library/job.py: Job *)

\* datetime.strptime(force_datetime, DT_FORMAT): the tick at which the second
\* the text names begins
strptime(second) == second * TicksPerSecond

\* Job.__init__ up to and including the construction of the Signal: the Jobs
\* row is inserted with a null status, then the Signal loads its latest row.
\* A duplicate id makes the insert, and with it the constructor, raise.
\* force_datetime is the second the caller names, or None.
JobNewAt(p, force_datetime) ==
    /\ pc[p] = "new"
    /\ \E name \in NAMES :
        \* the datetime column is run_datetime.strftime(DT_FORMAT); rows are
        \* told apart by its whole second
        LET run_datetime == IF force_datetime # NoneNum
                            THEN strptime(force_datetime[1])
                            ELSE now
            row == [ id |-> unique_id(now),
                     datetime |-> Num(strftime(run_datetime)),
                     name |-> name,
                     status |-> NoneStr,
                     seconds_elapsed |-> NoneNum ]
        IN  IF can_insert(Jobs, row)
            THEN \E i \in load_choices(name) :
                    /\ Jobs' = insert(Jobs, row)
                    /\ job' = [job EXCEPT ![p] =
                                 [ id |-> row.id, name |-> name, run_datetime |-> run_datetime,
                                   status |-> NoneStr, error |-> NoneStr ]]
                    /\ signal' = [signal EXCEPT ![p] = Signal_init(row.id, name, i)]
                    /\ loaded_action' =
                           [loaded_action EXCEPT ![p] = Signal_init(row.id, name, i).action]
                    /\ pc' = [pc EXCEPT ![p] = "inserted"]
            ELSE /\ pc' = [pc EXCEPT ![p] = "aborted"]
                 /\ UNCHANGED <<Jobs, job, signal, loaded_action>>
    /\ UNCHANGED <<now, Signals, emails, code, force_email, last_call>>

\* Job.set_status: the Job object after the call (the assignment comes first)
set_status_job(j, status) == [ j EXCEPT !.status = status ]

\* Job.set_status: the Jobs table after the call
set_status_rows(j, status) ==
    IF is_valid(status)
    THEN update_job(Jobs, j.id, status, Num(now - j.run_datetime))
    ELSE Jobs

\* Job(global_configs, script_configs): no force_datetime
JobNew(p) == JobNewAt(p, NoneNum)

\* the last statement of Job.__init__: set_status(INITIATED)
JobInit(p) ==
    /\ pc[p] = "inserted"
    /\ job' = [job EXCEPT ![p] = set_status_job(job[p], INITIATED)]
    /\ Jobs' = set_status_rows(job[p], INITIATED)
    /\ pc' = [pc EXCEPT ![p] = "ready"]
    /\ UNCHANGED <<now, Signals, signal, emails, code, force_email,
                   loaded_action, last_call>>

\* Job.do_work up to the call of calculation_function
DoWork(p) ==
    /\ pc[p] = "ready"
    /\ job' = [job EXCEPT ![p].error = NoneStr]
    /\ pc' = [pc EXCEPT ![p] = "working"]
    /\ UNCHANGED <<now, Jobs, Signals, signal, emails, code, force_email,
                   loaded_action, last_call>>

\* the record of fn's k-th call
Call(p, op, args, ok) ==
    [ n |-> last_call[p].n + 1, op |-> op, args |-> args, ok |-> ok ]

\* an except branch that also marks the job FAILED
caught_and_failed(j, message) == [ j EXCEPT !.error = message, !.status = FAILED ]

\* except Exception as error: self.error = str(error); do_work returns
caught(j, message) == [ j EXCEPT !.error = message ]

\* fn calls job.set_status(status); an invalid status raises out of fn
FnSetStatus(p, status) ==
    /\ pc[p] = "working"
    /\ last_call[p].n < MaxCalls
    /\ Jobs' = set_status_rows(job[p], status)
    /\ IF is_valid(status)
       THEN /\ job' = [job EXCEPT ![p] = set_status_job(job[p], status)]
            /\ pc' = pc
       ELSE /\ job' = [job EXCEPT ![p] =
                         caught(set_status_job(job[p], status), "{} is an invalid status!")]
            /\ pc' = [pc EXCEPT ![p] = "worked"]
    /\ last_call' = [last_call EXCEPT ![p] =
                        Call(p, "set_status", <<status>>, is_valid(status))]
    /\ UNCHANGED <<now, Signals, signal, emails, code, force_email, loaded_action>>

\* fn calls job.set_signal(action, confidence), that is Signal.set; a rejected
\* argument or a failed insert raises out of fn
FnSetSignal(p, action, confidence) ==
    /\ pc[p] = "working"
    /\ last_call[p].n < MaxCalls
    /\ LET sig == Signal_set_fields(signal[p], action, confidence)
           row == Signal_row(sig, now)
       IN  IF ~ Signal_set_accepts(action, confidence)
           THEN /\ job' = [job EXCEPT ![p] =
                             caught(job[p],
                                    IF action \notin VALID_ACTIONS
                                    THEN "Signal status must be either \"hold\", \"sell\" or \"buy\"!"
                                    ELSE "Confidence must be a float (0-1)")]
                /\ pc' = [pc EXCEPT ![p] = "worked"]
                /\ last_call' = [last_call EXCEPT ![p] =
                                    Call(p, "set_signal", <<action, confidence>>, FALSE)]
                /\ UNCHANGED <<signal, Signals>>
           ELSE IF can_insert(Signals, row)
           THEN /\ signal' = [signal EXCEPT ![p] = sig]
                /\ Signals' = insert(Signals, row)
                /\ last_call' = [last_call EXCEPT ![p] =
                                    Call(p, "set_signal", <<action, confidence>>, TRUE)]
                /\ UNCHANGED <<job, pc>>
           ELSE /\ signal' = [signal EXCEPT ![p] = sig]
                /\ job' = [job EXCEPT ![p] =
                             caught(job[p], "UNIQUE constraint failed: Signals.id")]
                /\ pc' = [pc EXCEPT ![p] = "worked"]
                /\ last_call' = [last_call EXCEPT ![p] =
                                    Call(p, "set_signal", <<action, confidence>>, FALSE)]
                /\ UNCHANGED Signals
    /\ UNCHANGED <<now, Jobs, emails, code, force_email, loaded_action>>

\* fn returns normally; do_work returns
FnReturn(p) ==
    /\ pc[p] = "working"
    /\ pc' = [pc EXCEPT ![p] = "worked"]
    /\ UNCHANGED <<now, Jobs, Signals, job, signal, emails, code, force_email,
                   loaded_action, last_call>>

\* the messages of the failures fn raises itself
FnMessages == {"", "Bad data request!"}

\* fn raises Exception(message); do_work catches it
FnRaise(p, message) ==
    /\ pc[p] = "working"
    /\ job' = [job EXCEPT ![p] = caught(job[p], message)]
    /\ pc' = [pc EXCEPT ![p] = "worked"]
    /\ last_call' = [last_call EXCEPT ![p] = Call(p, "raise", <<message>>, FALSE)]
    /\ UNCHANGED <<now, Jobs, Signals, signal, emails, code, force_email,
                   loaded_action>>

\* the truth value Python gives self.error
truthy(error) == error # NoneStr /\ error # ""

\* Emailer.job_failure and Emailer.signal_change: the invocation as the
\* notifier sees it
job_failure(j) == [ kind |-> "job_failure", status |-> j.status, error |-> j.error ]
signal_change(j, sig) == [ kind |-> "signal_change", status |-> j.status, error |-> j.error ]

\* a notifier invoked before set_status has run: it sees the job as fn left it
notification_before_status(j, sig, force) ==
    IF truthy(j.error)
    THEN <<job_failure(j)>>
    ELSE IF has_changed(sig) \/ force
         THEN <<signal_change(j, sig)>>
         ELSE <<>>

\* Job.finish_and_return_code(force): which notifier call it makes, if any
notification(j, sig, force) ==
    IF truthy(j.error)
    THEN <<job_failure(set_status_job(j, FAILED))>>
    ELSE IF has_changed(sig) \/ force
         THEN <<signal_change(set_status_job(j, SUCCESS), sig)>>
         ELSE <<>>

\* Job.finish_and_return_code(force); sent = FALSE: _send_email raises (the
\* SMTP server refuses) and the failure leaves finish_and_return_code
Finish(p, force, sent) ==
    /\ pc[p] = "worked"
    /\ LET final == IF truthy(job[p].error) THEN FAILED ELSE SUCCESS
           mail == notification(job[p], signal[p], force)
       IN  /\ job' = [job EXCEPT ![p] = set_status_job(job[p], final)]
           /\ Jobs' = set_status_rows(job[p], final)
           /\ emails' = [emails EXCEPT ![p] = emails[p] \o mail]
           /\ force_email' = [force_email EXCEPT ![p] = force]
           /\ IF mail # <<>> /\ ~ sent
              THEN /\ pc' = [pc EXCEPT ![p] = "raised"]
                   /\ code' = code
              ELSE /\ pc' = [pc EXCEPT ![p] = "done"]
                   /\ code' = [code EXCEPT ![p] =
                                 Num(IF truthy(job[p].error) THEN FAIL_CODE ELSE SUCCESS_CODE)]
    /\ UNCHANGED <<now, Signals, signal, loaded_action, last_call>>

----------------------------------------------------------------------------

\* the shipped script: a Job without force_datetime, and a calculation
\* function that sets statuses and signals
Next ==
    \/ Tick /\ UNCHANGED <<sv_vars, dao_vars>>
    \/ \E p \in Procs : JobNew(p) /\ UNCHANGED <<sv_vars, dao_vars>>
    \/ \E p \in Procs : JobInit(p) /\ UNCHANGED <<sv_vars, dao_vars>>
    \/ \E p \in Procs : DoWork(p) /\ UNCHANGED <<sv_vars, dao_vars>>
    \/ \E p \in Procs, status \in StatusArgs :
          FnSetStatus(p, status) /\ UNCHANGED <<sv_vars, dao_vars>>
    \/ \E p \in Procs, action \in ActionArgs, confidence \in ConfidenceArgs :
          FnSetSignal(p, action, confidence) /\ UNCHANGED <<sv_vars, dao_vars>>
    \/ \E p \in Procs : FnReturn(p) /\ UNCHANGED <<sv_vars, dao_vars>>
    \/ \E p \in Procs, message \in FnMessages :
          FnRaise(p, message) /\ UNCHANGED <<sv_vars, dao_vars>>
    \/ \E p \in Procs, force \in BOOLEAN, sent \in BOOLEAN :
          Finish(p, force, sent) /\ UNCHANGED <<sv_vars, dao_vars>>

Spec == Init /\ [][Next]_vars

----------------------------------------------------------------------------
(* library/job.py: StoredValue, Job.store_value, Job.read_value *)

\* a value argument: its Python type and its amount in thousandths (for a
\* string, the amount its digits spell)
Value(type, milli) == [ type |-> type, milli |-> milli ]
ValueArgs == { Value("float", 3142), Value("int", 7000), Value("str", 7000) }

\* the round_dp a script configuration gives: none, or 2
RoundDpArgs == { NoneNum, Num(2) }

\* '"{}"'.format(v) in Database.insert: the text of a value; the text of an
\* integer and of a string of the same digits are the same text
str(v) == <<"text", v.milli, v.type = "float">>

\* DAO.read(None, where_condition={'key': key}, sortby='datetime') on
\* StoredValues: the indices of the rows that can come first
first_values(table, key) ==
    { i \in 1..Len(table) :
        /\ table[i].key = key
        /\ \A j \in 1..Len(table) :
              table[j].key = key =>
                  ~ key_less(sort_key(table[i].datetime), sort_key(table[j].datetime)) }

\* the rows StoredValue._load may find first (0: none)
value_choices(key) ==
    IF first_values(StoredValues, key) = {} THEN {0} ELSE first_values(StoredValues, key)

\* StoredValue.__init__ followed by StoredValue._load, when the select puts
\* row i first: _load assigns id, action and confidence and leaves value as
\* __init__ set it
StoredValue_init(job_id, key, round_dp, i) ==
    [ job_id |-> job_id,
      key |-> key,
      round_dp |-> round_dp,
      value |-> NoValue,
      id |-> IF i = 0 THEN <<>> ELSE StoredValues[i].id,
      action |-> IF i = 0 THEN NoneStr ELSE StoredValues[i].key,
      confidence |-> IF i = 0 THEN <<>> ELSE StoredValues[i].value ]

\* StoredValue._round
round_number(sv, number) ==
    IF sv.round_dp # NoneNum
    THEN [ number EXCEPT !.milli = round2(number.milli) ]
    ELSE number

\* StoredValue.set: the object after the assignment of self.value
StoredValue_set_fields(sv, value) ==
    [ sv EXCEPT !.value = IF value.type = "float" THEN round_number(sv, value) ELSE value ]

\* StoredValue.set: the row handed to StoredValuesDAO.new
StoredValue_row(sv, value, tick) ==
    [ id |-> unique_id(tick),
      job_id |-> sv.job_id,
      datetime |-> Num(strftime(tick)),
      key |-> sv.key,
      value |-> str(value) ]

\* Job.read_value(key), for a key that has a StoredValue
read_value(p, key) == stored_values[p][key].value

\* fn calls job.store_value(key, value): the StoredValue of the key is
\* constructed on its first use (row i comes first in its load), then set;
\* a failed insert raises out of fn
FnStoreValue(p, key, value) ==
    /\ pc[p] = "working"
    /\ last_call[p].n < MaxCalls
    /\ \E i \in value_choices(key) :
        LET stored_value == IF stored_values[p][key] = NoStoredValue
                            THEN StoredValue_init(job[p].id, key, variables[p], i)
                            ELSE stored_values[p][key]
            sv == StoredValue_set_fields(stored_value, value)
            row == StoredValue_row(sv, value, now)
        IN  /\ stored_values' = [stored_values EXCEPT ![p][key] = sv]
            /\ IF can_insert(StoredValues, row)
               THEN /\ StoredValues' = insert(StoredValues, row)
                    /\ last_call' = [last_call EXCEPT ![p] =
                                        Call(p, "store_value", <<key, value>>, TRUE)]
                    /\ UNCHANGED <<job, pc>>
               ELSE /\ job' = [job EXCEPT ![p] =
                                 caught(job[p], "UNIQUE constraint failed: StoredValues.id")]
                    /\ pc' = [pc EXCEPT ![p] = "worked"]
                    /\ last_call' = [last_call EXCEPT ![p] =
                                        Call(p, "store_value", <<key, value>>, FALSE)]
                    /\ UNCHANGED StoredValues
    /\ UNCHANGED <<now, Jobs, Signals, signal, emails, code, force_email,
                   loaded_action, variables>>

\* what an earlier invocation left in StoredValues: nothing, or one row for
\* the key "x"
EarlierValue(value) ==
    [ id |-> unique_id(0), job_id |-> unique_id(0), datetime |-> Num(0),
      key |-> "x", value |-> str(value) ]

ValueHistories == {<<>>} \cup { <<EarlierValue(v)>> : v \in ValueArgs }

\* one script is about to start; its configuration may set round_dp
InitStore ==
    /\ InitJobVars({"p1"})
    /\ Signals \in {<<>>, <<EarlierSignal(SELL, 0)>>}
    /\ StoredValues \in ValueHistories
    /\ Jobs = IF Signals = <<>> /\ StoredValues = <<>> THEN <<>> ELSE <<EarlierJob>>
    /\ variables \in [{"p1"} -> RoundDpArgs]
    /\ InitDao

\* a calculation function that stores values and sets a signal
NextStore ==
    \/ Tick /\ UNCHANGED <<sv_vars, dao_vars>>
    \/ \E p \in Procs : JobNew(p) /\ UNCHANGED <<sv_vars, dao_vars>>
    \/ \E p \in Procs : JobInit(p) /\ UNCHANGED <<sv_vars, dao_vars>>
    \/ \E p \in Procs : DoWork(p) /\ UNCHANGED <<sv_vars, dao_vars>>
    \/ \E p \in Procs, key \in KEYS, value \in ValueArgs :
          FnStoreValue(p, key, value) /\ UNCHANGED dao_vars
    \/ \E p \in Procs, action \in {BUY, SELL} :
          FnSetSignal(p, action, Conf("float", 456)) /\ UNCHANGED <<sv_vars, dao_vars>>
    \/ \E p \in Procs : FnReturn(p) /\ UNCHANGED <<sv_vars, dao_vars>>
    \/ \E p \in Procs, sent \in BOOLEAN :
          Finish(p, FALSE, sent) /\ UNCHANGED <<sv_vars, dao_vars>>

SpecStore == InitStore /\ [][NextStore]_vars

----------------------------------------------------------------------------
(* library/database.py: DAO.new and DAO.read with sortby, used directly *)

\* the most rows the table is given
MaxRows == 3

\* SignalDAO.new(data_dict) with a data_dict of name and, if with_datetime,
\* datetime: the columns of SCHEMA missing from it are filled with None
DaoNew(name, with_datetime) ==
    LET row == [ id |-> unique_id(now),
                 job_id |-> <<>>,
                 datetime |-> IF with_datetime THEN Num(strftime(now)) ELSE NoneNum,
                 name |-> name,
                 action |-> NoneStr,
                 confidence |-> NoneNum ]
    IN  /\ Len(Signals) < MaxRows
        /\ Signals' = IF can_insert(Signals, row) THEN insert(Signals, row) ELSE Signals
        /\ UNCHANGED <<now, Jobs, pc, job, signal, emails, code, force_email,
                       loaded_action, last_call, sv_vars, dao_vars>>

\* Database.select(table, condition={'name': name}, sortby='datetime'): the
\* results the engine may return, each the matching rows in an order that is
\* descending in the ORDER BY key
select(table, name) ==
    LET matching == { i \in 1..Len(table) : table[i].name = name }
        n == Cardinality(matching)
        orders == { f \in [1..n -> matching] :
                      /\ \A a, b \in 1..n : a # b => f[a] # f[b]
                      /\ \A a, b \in 1..n :
                            a < b => ~ key_less(sort_key(table[f[a]].datetime),
                                                sort_key(table[f[b]].datetime)) }
    IN  { [ a \in 1..n |-> table[f[a]] ] : f \in orders }

\* SignalDAO.read(None, where_condition={'name': name}, sortby='datetime')
DaoRead(name) ==
    /\ selected' \in select(Signals, name)
    /\ UNCHANGED <<job_vars, sv_vars, tables, deploy>>

\* an empty database, used through the DAO alone
InitSelect ==
    /\ InitJobVars({"p1"})
    /\ Signals = <<>>
    /\ Jobs = <<>>
    /\ StoredValues = <<>>
    /\ variables = [p \in {"p1"} |-> NoneNum]
    /\ InitDao

NextSelect ==
    \/ Tick /\ UNCHANGED <<sv_vars, dao_vars>>
    \/ \E name \in NAMES, with_datetime \in BOOLEAN : DaoNew(name, with_datetime)
    \/ \E name \in NAMES : DaoRead(name)

SpecSelect == InitSelect /\ [][NextSelect]_vars

----------------------------------------------------------------------------
(* app/deploy.py and library/database.py: DatabaseInitiator.create_tables *)

\* the most runs of deploy.py that are followed
MaxRuns == 2

\* the database file as create_tables sees it
database == [ tables |-> tables,
              rows |-> [ Jobs |-> Jobs, Signals |-> Signals, StoredValues |-> StoredValues ],
              attempted |-> <<>> ]

\* a creation that replaces a table that is already there by an empty one
create_or_replace_table(db, dao, failing) ==
    IF dao \in failing
    THEN [ db EXCEPT !.attempted = Append(@, dao) ]
    ELSE [ db EXCEPT !.attempted = Append(@, dao),
                     !.tables = @ \cup {dao},
                     !.rows[dao] = <<>> ]

\* one turn of the loop of create_tables: CREATE TABLE raises
\* sqlite3.OperationalError when the table exists, or for a reason of its
\* own (dao in failing: the database is locked); the except branch prints a
\* warning and the loop goes on
try_create_table(db, dao, failing) ==
    IF dao \in db.tables \/ dao \in failing
    THEN [ db EXCEPT !.attempted = Append(@, dao) ]
    ELSE [ db EXCEPT !.attempted = Append(@, dao),
                     !.tables = @ \cup {dao} ]

\* DatabaseInitiator.create_tables: the loop over self.daos
create_tables(db, failing) ==
    LET after[i \in 0..Len(DAO_LIST)] ==
            IF i = 0 THEN db ELSE try_create_table(after[i - 1], DAO_LIST[i], failing)
    IN  after[Len(DAO_LIST)]

\* deploy.py's main: one run of create_tables
CreateTables(failing) ==
    /\ deploy.run < MaxRuns
    /\ LET db == create_tables(database, failing)
       IN  /\ tables' = db.tables
           /\ Jobs' = db.rows["Jobs"]
           /\ Signals' = db.rows["Signals"]
           /\ StoredValues' = db.rows["StoredValues"]
           /\ deploy' = [ run |-> deploy.run + 1,
                          attempted |-> db.attempted,
                          failing |-> failing ]
    /\ UNCHANGED <<now, pc, job, signal, emails, code, force_email, loaded_action,
                   last_call, stored_values, variables, selected>>

\* a database file at some point of its life: some of the tables not yet
\* created, or all of them there with the rows an earlier job left
InitDeploy ==
    /\ InitJobVars({"p1"})
    /\ tables \in SUBSET TABLES
    /\ Signals \in IF tables = TABLES THEN {<<>>, <<EarlierSignal(SELL, 0)>>} ELSE {<<>>}
    /\ StoredValues \in IF tables = TABLES THEN ValueHistories ELSE {<<>>}
    /\ Jobs = IF tables = TABLES THEN <<EarlierJob>> ELSE <<>>
    /\ variables = [p \in {"p1"} |-> NoneNum]
    /\ selected = <<>>
    /\ deploy = Deployed

NextDeploy == \E failing \in SUBSET TABLES : CreateTables(failing)

SpecDeploy == InitDeploy /\ [][NextDeploy]_vars

----------------------------------------------------------------------------
(* library/job.py: a Job constructed with force_datetime *)

\* the force_datetime a caller gives: none, a second that has passed, the
\* second of the start, a second to come
ForceArgs == { NoneNum, Num(0), Num(1), Num(3) }

\* a script that constructs its Job with force_datetime and reports its
\* progress
NextForce ==
    \/ Tick /\ UNCHANGED <<sv_vars, dao_vars>>
    \/ \E p \in Procs, force_datetime \in ForceArgs :
          JobNewAt(p, force_datetime) /\ UNCHANGED <<sv_vars, dao_vars>>
    \/ \E p \in Procs : JobInit(p) /\ UNCHANGED <<sv_vars, dao_vars>>
    \/ \E p \in Procs : DoWork(p) /\ UNCHANGED <<sv_vars, dao_vars>>
    \/ \E p \in Procs, status \in {REQUESTING, CALCULATING} :
          FnSetStatus(p, status) /\ UNCHANGED <<sv_vars, dao_vars>>
    \/ \E p \in Procs : FnReturn(p) /\ UNCHANGED <<sv_vars, dao_vars>>
    \/ \E p \in Procs, sent \in BOOLEAN :
          Finish(p, FALSE, sent) /\ UNCHANGED <<sv_vars, dao_vars>>

SpecForce == Init /\ [][NextForce]_vars

----------------------------------------------------------------------------
(* Two invocations of a script at once, on the database of an earlier run *)

\* two processes are about to start; an earlier run left a row in each table
InitTwo ==
    /\ InitJobVars({"p1", "p2"})
    /\ Jobs = <<EarlierJob>>
    /\ Signals = <<EarlierSignal(SELL, 0)>>
    /\ StoredValues = <<EarlierValue(Value("int", 7000))>>
    /\ variables = [p \in {"p1", "p2"} |-> NoneNum]
    /\ InitDao

\* each process constructs its Job, reports its progress, sets a signal and
\* stores a value from fn, and finishes
NextTwo ==
    \/ Tick /\ UNCHANGED <<sv_vars, dao_vars>>
    \/ \E p \in Procs : JobNew(p) /\ UNCHANGED <<sv_vars, dao_vars>>
    \/ \E p \in Procs : JobInit(p) /\ UNCHANGED <<sv_vars, dao_vars>>
    \/ \E p \in Procs : DoWork(p) /\ UNCHANGED <<sv_vars, dao_vars>>
    \/ \E p \in Procs, status \in {REQUESTING, "BOGUS"} :
          FnSetStatus(p, status) /\ UNCHANGED <<sv_vars, dao_vars>>
    \/ \E p \in Procs :
          FnSetSignal(p, BUY, Conf("float", 456)) /\ UNCHANGED <<sv_vars, dao_vars>>
    \/ \E p \in Procs :
          FnStoreValue(p, "x", Value("int", 7000)) /\ UNCHANGED dao_vars
    \/ \E p \in Procs : FnReturn(p) /\ UNCHANGED <<sv_vars, dao_vars>>
    \/ \E p \in Procs : Finish(p, FALSE, TRUE) /\ UNCHANGED <<sv_vars, dao_vars>>

SpecTwo == InitTwo /\ [][NextTwo]_vars

----------------------------------------------------------------------------
(* What the claims speak of *)

\* the row of p's job in a Jobs table (DAO.read(job.id))
row_in(table, p) == table[CHOOSE i \in 1..Len(table) : table[i].id = job[p].id]
job_row(p) == row_in(Jobs, p)

\* p's Job has been constructed
constructed(p) == pc[p] \in {"ready", "working", "worked", "done", "raised"}

\* finish_and_return_code has run for p (and returned, or raised in the notifier)
finished(p) == pc[p] \in {"done", "raised"}

\* p's Signal.set got as far as its assignments during this run
signal_written(p) == signal[p].previous_action # NoneStr

\* fn raised: its last call, or its own raise, failed and do_work caught it
fn_raised(p) == ~ last_call[p].ok

\* this step is the call number n of fn in process p, of the operation op
is_call(p, op) ==
    /\ last_call'[p].n = last_call[p].n + 1
    /\ last_call'[p].op = op

kinds(p) == [ i \in 1..Len(emails[p]) |-> emails[p][i].kind ]

----------------------------------------------------------------------------
(* Claims *)

\* C1: for a Signal written with Signal.set(a, c) during the current run,
\* has_changed() is false exactly when a equals the action loaded at
\* construction from the most recent persisted row of that name, and true
\* otherwise, the first run (no prior row) included.
C1_has_changed_iff_action_differs ==
    \A p \in Procs :
        signal_written(p) =>
            (has_changed(signal[p]) <=> signal[p].action # loaded_action[p])

\* C2: whenever fn raised, whatever its message, do_work followed by
\* finish_and_return_code returns the failure exit code, leaves the job's
\* Jobs row FAILED, and the job holds the error text.
C2_raising_fn_ends_failed ==
    \A p \in Procs :
        (pc[p] = "done" /\ fn_raised(p)) =>
            /\ code[p] = Num(FAIL_CODE)
            /\ job_row(p).status = FAILED
            /\ job[p].error # NoneStr

\* C3: when fn completes normally and sets a signal whose action differs from
\* the last persisted action (or there is no prior row), do_work followed by
\* finish_and_return_code without force_email returns the success exit code,
\* persists SUCCESS and invokes the notifier exactly once, with the success
\* report.
C3_changed_signal_is_reported ==
    \A p \in Procs :
        ( /\ pc[p] = "done"
          /\ ~ fn_raised(p)
          /\ signal_written(p)
          /\ signal[p].action # loaded_action[p]
          /\ ~ force_email[p] ) =>
            /\ code[p] = Num(SUCCESS_CODE)
            /\ job_row(p).status = SUCCESS
            /\ kinds(p) = <<"signal_change">>

\* C4: on the success path without force_email, nothing is sent unless the
\* signal's action changed during this run: a run that never sets the signal,
\* or sets the action the last persisted row has, sends nothing.
C4_no_mail_without_change ==
    \A p \in Procs :
        ( /\ finished(p)
          /\ ~ truthy(job[p].error)
          /\ ~ force_email[p]
          /\ ~ (signal_written(p) /\ signal[p].action # loaded_action[p]) ) =>
            emails[p] = <<>>

\* C5: whenever do_work captured an error, finish_and_return_code makes the
\* job FAILED, invokes the failure notice exactly once whatever force_email
\* and the signal are, never invokes the success report, and returns the
\* failure exit code.
C5_captured_error_fails_job ==
    \A p \in Procs :
        (finished(p) /\ fn_raised(p)) =>
            /\ job[p].status = FAILED
            /\ job_row(p).status = FAILED
            /\ kinds(p) = <<"job_failure">>
            /\ (pc[p] = "done" => code[p] = Num(FAIL_CODE))

\* C6: set_status(s) with s in the fixed status set persists exactly s to the
\* job's row; with any other string, differently-cased spellings of a valid
\* status included, it fails and leaves the persisted row unchanged.
C6_set_status_persists_valid_only ==
    [][ \A p \in Procs :
          is_call(p, "set_status") =>
              IF last_call'[p].args[1] \in VALID
              THEN /\ last_call'[p].ok
                   /\ row_in(Jobs', p).status = last_call'[p].args[1]
              ELSE /\ ~ last_call'[p].ok
                   /\ Jobs' = Jobs ]_vars

\* C7: in every state after Job construction the job's status, in memory and
\* in the status column of its Jobs row, is a member of the fixed status set,
\* also after a set_status call that failed validation.
C7_status_always_valid ==
    \A p \in Procs :
        constructed(p) => (job[p].status \in VALID /\ job_row(p).status \in VALID)

Terminal == {SUCCESS, FAILED}

\* C8: SUCCESS and FAILED are terminal and set only by
\* finish_and_return_code: no operation changes a status that is SUCCESS or
\* FAILED, and no set_status call puts the job into SUCCESS or FAILED.
C8_terminal_status_only_by_finish ==
    [][ \A p \in Procs :
          constructed(p) =>
              /\ job[p].status \in Terminal => job'[p].status = job[p].status
              /\ job_row(p).status \in Terminal =>
                     row_in(Jobs', p).status = job_row(p).status
              /\ is_call(p, "set_status") =>
                     (job'[p].status \notin Terminal
                          /\ row_in(Jobs', p).status \notin Terminal) ]_vars

\* a confidence that is <= 0, >= 1 or not a number
bad_confidence(c) == c.type = "str" \/ c.milli <= 0 \/ c.milli >= 1000

\* C9: Signal.set(action, confidence) with a valid action and a confidence
\* that is <= 0, >= 1 or non-numeric fails and appends no Signals row; only
\* confidences strictly between 0 and 1 are persisted.
C9_bad_confidence_rejected ==
    [][ \A p \in Procs :
          (is_call(p, "set_signal") /\ last_call'[p].args[1] \in VALID_ACTIONS) =>
              /\ bad_confidence(last_call'[p].args[2]) =>
                     (~ last_call'[p].ok /\ Signals' = Signals)
              /\ Signals' # Signals =>
                     /\ Signals'[Len(Signals')].confidence[1] > 0
                     /\ Signals'[Len(Signals')].confidence[1] < 1000 ]_vars

\* C10: Signal.set with an action outside {HOLD, SELL, BUY} fails with an
\* error, appends no Signals row, and leaves the signal's in-memory action,
\* confidence and has_changed() result as they were before the call.
C10_invalid_action_changes_nothing ==
    [][ \A p \in Procs :
          (is_call(p, "set_signal") /\ last_call'[p].args[1] \notin VALID_ACTIONS) =>
              /\ ~ last_call'[p].ok
              /\ truthy(job'[p].error)
              /\ Signals' = Signals
              /\ signal'[p].action = signal[p].action
              /\ signal'[p].confidence = signal[p].confidence
              /\ has_changed(signal'[p]) = has_changed(signal[p]) ]_vars

\* C10 witness: fn called set_signal with an action outside the set, after an
\* earlier set_signal had given the signal an action and a confidence
C10_witness ==
    \E p \in Procs :
        /\ last_call[p].op = "set_signal"
        /\ last_call[p].n = 2
        /\ last_call[p].args[1] \notin VALID_ACTIONS
        /\ ~ last_call[p].ok
        /\ signal_written(p)
        /\ pc[p] = "worked"

\* s is an initial part of t
is_prefix(s, t) ==
    /\ Len(s) <= Len(t)
    /\ \A i \in 1..Len(s) : t[i] = s[i]

\* the last row of a table
last_row(table) == table[Len(table)]

\* C11: every store_value(key, v) call of a Job appends one StoredValues row
\* for the key, with an identifier no earlier row has (also when calls fall
\* within the same clock tick), and read_value(key) afterwards returns the
\* value of this latest call.
C11_store_value_appends_distinct_row ==
    [][ \A p \in Procs :
          is_call(p, "store_value") =>
              /\ Len(StoredValues') = Len(StoredValues) + 1
              /\ last_row(StoredValues').key = last_call'[p].args[1]
              /\ \A i \in 1..Len(StoredValues) :
                    StoredValues[i].id # last_row(StoredValues').id
              /\ stored_values'[p][last_call'[p].args[1]].value =
                    StoredValue_set_fields(stored_values'[p][last_call'[p].args[1]],
                                           last_call'[p].args[2]).value ]_vars

\* C12: after a successful store_value(key, v) the value column of the
\* appended row is the text of the in-memory value read_value(key) returns:
\* v rounded to the configured precision for a float, v itself for an
\* integer or a string.
C12_persisted_value_is_rounded ==
    [][ \A p \in Procs :
          (is_call(p, "store_value") /\ last_call'[p].ok) =>
              /\ last_row(StoredValues').value =
                    str(stored_values'[p][last_call'[p].args[1]].value)
              /\ last_call'[p].args[2].type # "float" =>
                    last_row(StoredValues').value = str(last_call'[p].args[2]) ]_vars

\* C13: Signals and StoredValues are append-only: every step leaves the rows
\* already there in place and unchanged, a successful Signal.set appends
\* exactly one Signals row, a successful StoredValue.set appends exactly one
\* StoredValues row, and no other step adds a row.
C13_signals_and_values_append_only ==
    [][ /\ is_prefix(Signals, Signals')
        /\ is_prefix(StoredValues, StoredValues')
        /\ Len(Signals') =
              Len(Signals) + IF \E p \in Procs : is_call(p, "set_signal") /\ last_call'[p].ok
                             THEN 1 ELSE 0
        /\ Len(StoredValues') =
              Len(StoredValues) + IF \E p \in Procs : is_call(p, "store_value") /\ last_call'[p].ok
                                  THEN 1 ELSE 0 ]_vars

\* C13 witness: on top of the rows an earlier run left, a set_signal and a
\* store_value of this run have each appended their row
C13_witness ==
    \E p \in Procs :
        /\ last_call[p].n = 2
        /\ last_call[p].ok
        /\ signal_written(p)
        /\ stored_values[p]["x"] # NoStoredValue
        /\ Len(Signals) = 2
        /\ Signals[1] = EarlierSignal(SELL, 0)
        /\ Len(StoredValues) = 2
        /\ StoredValues[1] \in { EarlierValue(v) : v \in ValueArgs }
        /\ last_row(StoredValues).job_id = job[p].id

\* C19: a StoredValue constructed for a key holds, before any set, the value
\* of the most recent persisted row of that key, and null when the key has no
\* row.
C19_constructed_value_is_latest_row ==
    \A p \in Procs : \A key \in KEYS : \A i \in value_choices(key) :
        LET sv == StoredValue_init(job[p].id, key, variables[p], i)
        IN  IF i = 0
            THEN sv.value = NoValue
            ELSE sv.value # NoValue /\ str(sv.value) = StoredValues[i].value

\* the position of the most recently inserted row of a table with the name
\* (0: none)
latest_inserted(table, name) ==
    IF \E i \in 1..Len(table) : table[i].name = name
    THEN CHOOSE i \in 1..Len(table) :
            /\ table[i].name = name
            /\ \A j \in 1..Len(table) : table[j].name = name => j <= i
    ELSE 0

\* C14: the row a Signal loads at construction is the most recently inserted
\* Signals row with its name, whichever job wrote it, also when several rows
\* carry the same one-second timestamp.
C14_signal_loads_latest_inserted ==
    \A p \in Procs :
        pc[p] = "inserted" =>
            loaded_action[p] =
                IF latest_inserted(Signals, job[p].name) = 0
                THEN NoneStr
                ELSE Signals[latest_inserted(Signals, job[p].name)].action

\* C15: a select with a sortby column returns every row whose sort column is
\* null after all rows whose sort column is not null, and the rows with a
\* value most-recent-first.
C15_select_puts_nulls_last ==
    \A a, b \in 1..Len(selected) :
        /\ (selected[a].datetime # NoneNum /\ selected[b].datetime = NoneNum) => a < b
        /\ (a < b /\ selected[a].datetime # NoneNum /\ selected[b].datetime # NoneNum) =>
              selected[a].datetime[1] >= selected[b].datetime[1]

\* C16: do_work(fn) invokes fn exactly once (fn is entered from do_work only,
\* and never again once it has ended), a failure raised by fn ends do_work
\* normally with the failure stored as the job's error, and do_work does not
\* itself change the status: it is INITIATED when fn starts and changes only
\* in a set_status call of fn, to the status of that call.
C16_do_work_runs_fn_once_and_catches ==
    [][ \A p \in Procs :
          /\ pc[p] = "ready" => job[p].status = INITIATED
          /\ (pc[p] \in {"ready", "working"} /\ job'[p].status # job[p].status) =>
                (is_call(p, "set_status") /\ job'[p].status = last_call'[p].args[1])
          /\ (pc[p] = "working" /\ last_call'[p].n # last_call[p].n /\ ~ last_call'[p].ok) =>
                (pc'[p] = "worked" /\ job'[p].error # NoneStr)
          /\ (pc'[p] = "working" /\ pc[p] # "working") => pc[p] = "ready"
          /\ pc[p] \in {"worked", "done", "raised"} => pc'[p] \notin {"ready", "working"}
      ]_vars

\* C16 witness: fn set a status and then raised; do_work has returned with
\* the failure as the job's error and the status fn set
C16_witness ==
    \E p \in Procs :
        /\ pc[p] = "worked"
        /\ last_call[p].n = 2
        /\ last_call[p].op = "raise"
        /\ ~ last_call[p].ok
        /\ job[p].error = "Bad data request!"
        /\ job[p].status = CALCULATING

\* C17: a run of create_tables attempts the table of every DAO of the list,
\* in order; a creation that fails (the table exists, or another failure of
\* that creation) stops nothing: every table whose creation did not fail is
\* there afterwards; tables that were there and all rows are as before, so a
\* run on a database that has every table leaves the same tables and rows.
C17_create_tables_skips_failures ==
    [][ deploy'.run = deploy.run + 1 =>
          /\ deploy'.attempted = DAO_LIST
          /\ tables' = tables \cup (TABLES \ deploy'.failing)
          /\ <<Jobs', Signals', StoredValues'>> = <<Jobs, Signals, StoredValues>>
          /\ tables = TABLES => tables' = tables ]_vars

\* C17 witness: a second run of create_tables has ended on a database that
\* had every table, with rows, before it: each creation failed because the
\* table exists, that of Jobs for a reason of its own as well
C17_witness ==
    /\ deploy.run = 2
    /\ deploy.attempted = DAO_LIST
    /\ deploy.failing = {"Jobs"}
    /\ tables = TABLES
    /\ Jobs = <<EarlierJob>>
    /\ Signals = <<EarlierSignal(SELL, 0)>>

\* C18: the seconds_elapsed a successful set_status persists is the time from
\* the job's run timestamp to the call, and is not negative, also when the
\* run timestamp came from force_datetime.
C18_seconds_elapsed_not_negative ==
    \A p \in Procs :
        constructed(p) =>
            /\ job_row(p).seconds_elapsed # NoneNum
            /\ job_row(p).seconds_elapsed[1] >= 0
            /\ job_row(p).seconds_elapsed[1] <= now - job[p].run_datetime

\* this step is a set_status of p's Job: the one that ends its constructor,
\* one fn calls, or the one of finish_and_return_code
set_status_step(p) ==
    \/ pc[p] = "inserted" /\ pc'[p] = "ready"
    \/ is_call(p, "set_status")
    \/ pc[p] = "worked" /\ pc'[p] \in {"done", "raised"}

\* C20: no step deletes a Jobs row or changes the id, datetime or name of
\* one; a Jobs row changes only in a set_status of the Job it belongs to; a
\* set_status adds no Jobs row and leaves every Jobs row of another job and
\* all Signals and StoredValues rows as they were, whatever other jobs do in
\* between; and each constructed Job has exactly one Jobs row.
C20_set_status_touches_own_row_only ==
    [][ /\ Len(Jobs') >= Len(Jobs)
        /\ \A i \in 1..Len(Jobs) :
              /\ Jobs'[i].id = Jobs[i].id
              /\ Jobs'[i].datetime = Jobs[i].datetime
              /\ Jobs'[i].name = Jobs[i].name
              /\ Jobs'[i] # Jobs[i] =>
                    \E p \in Procs : job[p].id = Jobs[i].id /\ set_status_step(p)
        /\ \A p \in Procs :
              /\ set_status_step(p) =>
                    /\ Len(Jobs') = Len(Jobs)
                    /\ Signals' = Signals
                    /\ StoredValues' = StoredValues
              /\ constructed(p) =>
                    Cardinality({ i \in 1..Len(Jobs) : Jobs[i].id = job[p].id }) = 1
      ]_vars

\* C20 witness: two jobs ran at once on a database that held an earlier
\* job's row; both have finished, one SUCCESS after setting a signal and one
\* FAILED, each in its own row, and the earlier rows are as they were
C20_witness ==
    /\ pc = [p \in {"p1", "p2"} |-> "done"]
    /\ Len(Jobs) = 3
    /\ Jobs[1] = EarlierJob
    /\ job_row("p1").status = SUCCESS
    /\ job_row("p2").status = FAILED
    /\ Len(Signals) = 2
    /\ Signals[1] = EarlierSignal(SELL, 0)
    /\ Signals[2].job_id = job["p1"].id
    /\ StoredValues = <<EarlierValue(Value("int", 7000))>>

\* C21: every Jobs row of every state of the store has the status INITIATED
\* or a later valid status, the states between the insert of Job.__init__ and
\* the end of the constructor included.
C21_jobs_rows_have_valid_status ==
    \A i \in 1..Len(Jobs) : Jobs[i].status \in VALID

\* this step is p's call of finish_and_return_code
finish_step(p) == pc[p] = "worked" /\ pc'[p] \in {"done", "raised"}

\* C22: finish_and_return_code persists the terminal status before it invokes
\* the notifier (the notifier sees the job with the status the row holds), a
\* call makes at most one notifier invocation, job_failure for FAILED and
\* signal_change for SUCCESS, never both, and when the invocation fails the
\* row keeps the terminal status, then and afterwards.
C22_terminal_status_before_notifier ==
    [][ \A p \in Procs :
          /\ finish_step(p) =>
                /\ row_in(Jobs', p).status \in Terminal
                /\ row_in(Jobs', p).status = job'[p].status
                /\ is_prefix(emails[p], emails'[p])
                /\ Len(emails'[p]) <= Len(emails[p]) + 1
                /\ \A i \in (Len(emails[p]) + 1)..Len(emails'[p]) :
                      /\ emails'[p][i].status = row_in(Jobs', p).status
                      /\ emails'[p][i].kind = "job_failure" <=>
                            row_in(Jobs', p).status = FAILED
                      /\ emails'[p][i].kind = "signal_change" <=>
                            row_in(Jobs', p).status = SUCCESS
                /\ pc'[p] = "raised" => Len(emails'[p]) = Len(emails[p]) + 1
          /\ finished(p) =>
                /\ row_in(Jobs', p) = job_row(p)
                /\ emails'[p] = emails[p] ]_vars

\* C22 witness: the notifier invocation of a successful job failed; the row
\* holds SUCCESS and the one invocation made was a signal_change
C22_witness ==
    \E p \in Procs :
        /\ pc[p] = "raised"
        /\ job_row(p).status = SUCCESS
        /\ kinds(p) = <<"signal_change">>
        /\ code[p] = NoneNum

\* the job_id of every row of the table is the id of a Jobs row
refers_to_jobs(table) ==
    \A i \in 1..Len(table) : \E j \in 1..Len(Jobs) : Jobs[j].id = table[i].job_id

\* C23: the row a set_signal or a store_value of a Job appends carries the
\* id of that Job as job_id, and in every state, whatever several jobs do on
\* the one store, the job_id of every Signals and StoredValues row is the id
\* of a Jobs row that exists.
C23_rows_carry_their_jobs_id ==
    [][ /\ refers_to_jobs(Signals) /\ refers_to_jobs(StoredValues)
        /\ refers_to_jobs(Signals)' /\ refers_to_jobs(StoredValues)'
        /\ \A p \in Procs :
              /\ (is_call(p, "set_signal") /\ last_call'[p].ok) =>
                    last_row(Signals').job_id = job[p].id
              /\ (is_call(p, "store_value") /\ last_call'[p].ok) =>
                    last_row(StoredValues').job_id = job[p].id ]_vars

\* C23 witness: two jobs at once on one store; each has appended a row, one a
\* Signals row and the other a StoredValues row, after the rows of an earlier
\* job
C23_witness ==
    /\ Len(Jobs) = 3
    /\ Len(Signals) = 2
    /\ Len(StoredValues) = 2
    /\ Signals[2].job_id = job["p1"].id
    /\ StoredValues[2].job_id = job["p2"].id
    /\ job["p1"].id # job["p2"].id
    /\ Signals[1].job_id = EarlierJob.id

\* Job.set_signal(action): the confidence of a call that gives none
DefaultConfidence == Conf("int", 0)

\* C24: a set_signal(action) without a confidence, with a valid action,
\* succeeds: it appends a Signals row with that action and the confidence 0
\* and does not raise, so fn goes on.
C24_default_confidence_is_accepted ==
    [][ \A p \in Procs :
          ( /\ is_call(p, "set_signal")
            /\ last_call'[p].args[1] \in VALID_ACTIONS
            /\ last_call'[p].args[2] = DefaultConfidence ) =>
              /\ last_call'[p].ok
              /\ pc'[p] = "working"
              /\ Len(Signals') = Len(Signals) + 1
              /\ last_row(Signals').action = last_call'[p].args[1]
              /\ last_row(Signals').confidence = Num(0)
              /\ last_row(Signals').job_id = job[p].id ]_vars

====
